---- MODULE Spec2Model ----
(***************************************************************************)
(* Model of price_tracker.py (AmazonPriceTracker): the retry loop of       *)
(* get_price with its backoff and cool-down sleeps, the bot-indicator      *)
(* search, the selector walk over the parsed page, parse_price and         *)
(* validate_price.                                                         *)
(*                                                                         *)
(* Text is modelled as a sequence of one-character strings, so substring   *)
(* search, lower-casing, stripping and the regular expressions of          *)
(* parse_price are computed character by character.  A float is modelled   *)
(* as an exact decimal [num, den] with den a power of ten, in lowest       *)
(* decimal form; for the short digit strings of the pages below the        *)
(* comparisons of validate_price on the exact decimals agree with the      *)
(* comparisons on the IEEE doubles.  Durations are in tenths of a second.  *)
(***************************************************************************)
EXTENDS Integers, Sequences, FiniteSets, TLC

(***************************************************************************)
(* Optional values: Python None and a present value.                       *)
(***************************************************************************)
None == <<>>

Some(v) == <<v>>

(***************************************************************************)
(* Characters and strings.                                                 *)
(***************************************************************************)
Digits == <<"0","1","2","3","4","5","6","7","8","9">>

UpperCase ==
    <<"A","B","C","D","E","F","G","H","I","J","K","L","M",
      "N","O","P","Q","R","S","T","U","V","W","X","Y","Z">>

LowerCase ==
    <<"a","b","c","d","e","f","g","h","i","j","k","l","m",
      "n","o","p","q","r","s","t","u","v","w","x","y","z">>

Whitespace == {" ", "\t", "\n", "\r"}

IsDigit(c) == \E i \in DOMAIN Digits : Digits[i] = c

DigitVal(c) == (CHOOSE i \in DOMAIN Digits : Digits[i] = c) - 1

LowerChar(c) ==
    IF \E i \in DOMAIN UpperCase : UpperCase[i] = c
    THEN LowerCase[CHOOSE i \in DOMAIN UpperCase : UpperCase[i] = c]
    ELSE c

\* str.lower()
Lower(s) == [i \in 1..Len(s) |-> LowerChar(s[i])]

\* needle in hay
Contains(hay, needle) ==
    \E i \in 0..(Len(hay) - Len(needle)) :
        \A j \in 1..Len(needle) : hay[i + j] = needle[j]

\* str.strip()
Strip(s) ==
    LET keep == {i \in 1..Len(s) : s[i] \notin Whitespace}
    IN  IF keep = {} THEN <<>>
        ELSE SubSeq(s, CHOOSE i \in keep : \A j \in keep : i <= j,
                       CHOOSE i \in keep : \A j \in keep : j <= i)

\* s[:n]
Take(s, n) == SubSeq(s, 1, IF Len(s) < n THEN Len(s) ELSE n)

RECURSIVE Concat(_)
\* "".join(parts)
Concat(parts) ==
    IF parts = <<>> THEN <<>> ELSE Head(parts) \o Concat(Tail(parts))

(***************************************************************************)
(* Decimal numbers (the float values of the program).                      *)
(***************************************************************************)
RECURSIVE Pow10(_)
Pow10(k) == IF k = 0 THEN 1 ELSE 10 * Pow10(k - 1)

RECURSIVE Normalize(_)
Normalize(d) ==
    IF d.den > 1 /\ d.num % 10 = 0
    THEN Normalize([num |-> d.num \div 10, den |-> d.den \div 10])
    ELSE d

Dec(n, k) == Normalize([num |-> n, den |-> Pow10(k)])

\* a <= b on decimals
Leq(a, b) == a.num * b.den <= b.num * a.den

RECURSIVE IntOf(_)
IntOf(ds) ==
    IF ds = <<>> THEN 0
    ELSE IntOf(SubSeq(ds, 1, Len(ds) - 1)) * 10 + DigitVal(ds[Len(ds)])

\* a float() that wants a digit after the '.'
FloatOfStrict(s) ==
    LET dots == {i \in 1..Len(s) : s[i] = "."}
        digs == {i \in 1..Len(s) : IsDigit(s[i])}
    IN  IF digs = {} \/ Cardinality(dots) > 1 \/ s[Len(s)] = "."
           \/ \E i \in 1..Len(s) : i \notin dots \cup digs
        THEN None
        ELSE LET ds == SelectSeq(s, IsDigit)
                 frac == IF dots = {} THEN 0
                         ELSE Len(s) - (CHOOSE i \in dots : TRUE)
             IN  Some(Dec(IntOf(ds), frac))

\* float(text) for the texts the regular expressions can hand over: digits
\* with at most one '.'; anything else raises ValueError (None here).
FloatOf(s) ==
    LET dots == {i \in 1..Len(s) : s[i] = "."}
        digs == {i \in 1..Len(s) : IsDigit(s[i])}
    IN  IF digs = {} \/ Cardinality(dots) > 1
           \/ \E i \in 1..Len(s) : i \notin dots \cup digs
        THEN None
        ELSE LET ds == SelectSeq(s, IsDigit)
                 frac == IF dots = {} THEN 0
                         ELSE Len(s) - (CHOOSE i \in dots : TRUE)
             IN  Some(Dec(IntOf(ds), frac))

(***************************************************************************)
(* parse_price                                                             *)
(***************************************************************************)
\* re.sub(r'[^\d.,\-]', '', price_text)
IsPriceChar(c) == IsDigit(c) \/ c \in {".", ",", "-"}

Clean(price_text) == SelectSeq(price_text, IsPriceChar)

\* end of the longest run of digits that starts at p (p - 1 when there is none)
DigitRunEnd(s, p) ==
    CHOOSE q \in (p - 1)..Len(s) :
        /\ \A i \in p..q : IsDigit(s[i])
        /\ q = Len(s) \/ ~IsDigit(s[q + 1])

RECURSIVE GroupsEnd(_, _)
\* (?:,\d{3})* matched greedily from position a + 1
GroupsEnd(s, a) ==
    IF /\ a + 4 <= Len(s)
       /\ s[a + 1] = ","
       /\ \A i \in (a + 2)..(a + 4) : IsDigit(s[i])
    THEN GroupsEnd(s, a + 4)
    ELSE a

\* the pattern without its \.?
DotEndNever(s, b) == b

\* \.? matched greedily from position b + 1
DotEnd(s, b) == IF b + 1 <= Len(s) /\ s[b + 1] = "." THEN b + 1 ELSE b

FirstDigit(s) ==
    LET ds == {i \in 1..Len(s) : IsDigit(s[i])}
    IN  IF ds = {} THEN 0 ELSE CHOOSE i \in ds : \A j \in ds : i <= j

\* re.search(r'(\d+(?:,\d{3})*\.?\d*)', s).group(1)
SearchStandard(s) ==
    LET p == FirstDigit(s)
    IN  IF p = 0 THEN None
        ELSE Some(SubSeq(s, p,
                 DigitRunEnd(s, DotEnd(s, GroupsEnd(s, DigitRunEnd(s, p))) + 1)))

\* re.search(r'(\d+\.?\d*)', s).group(1)
SearchSimple(s) ==
    LET p == FirstDigit(s)
    IN  IF p = 0 THEN None
        ELSE Some(SubSeq(s, p, DigitRunEnd(s, DotEnd(s, DigitRunEnd(s, p)) + 1)))

\* re.search(r'(\d+,\d+)', s).group(1)
SearchEuropean(s) ==
    LET starts == {p \in 1..Len(s) :
                     /\ IsDigit(s[p])
                     /\ LET a == DigitRunEnd(s, p)
                        IN  a + 2 <= Len(s) /\ s[a + 1] = "," /\ IsDigit(s[a + 2])}
    IN  IF starts = {} THEN None
        ELSE LET p == CHOOSE i \in starts : \A j \in starts : i <= j
             IN  Some(SubSeq(s, p, DigitRunEnd(s, DigitRunEnd(s, p) + 2)))

NumPricePatterns == 3

\* price_patterns[k] searched in the cleaned text
SearchPattern(k, s) ==
    CASE k = 1 -> SearchStandard(s)
      [] k = 2 -> SearchSimple(s)
      [] k = 3 -> SearchEuropean(s)

\* match.group(1).replace(',', '')
NotComma(c) == c # ","

RemoveCommas(s) == SelectSeq(s, NotComma)

RECURSIVE TryPatterns(_, _)
\* the for loop over price_patterns, from pattern k on
TryPatterns(cleaned, k) ==
    IF k > NumPricePatterns THEN None
    ELSE LET m == SearchPattern(k, cleaned)
         IN  IF m = None THEN TryPatterns(cleaned, k + 1)
             ELSE LET price == FloatOf(RemoveCommas(m[1]))
                  IN  IF price = None THEN TryPatterns(cleaned, k + 1)
                      ELSE price

\* parse_price with zero as the value of a text without a price
parse_price_zero_default(price_text) ==
    IF price_text = <<>> THEN Some(Dec(0, 0))
    ELSE TryPatterns(Clean(price_text), 1)

parse_price(price_text) ==
    IF price_text = <<>> THEN None
    ELSE TryPatterns(Clean(price_text), 1)

RECURSIVE ReturningPattern(_, _)
\* the pattern whose match the for loop over price_patterns returns, from
\* pattern k on; 0 when the loop ends without a return
ReturningPattern(cleaned, k) ==
    IF k > NumPricePatterns THEN 0
    ELSE LET m == SearchPattern(k, cleaned)
         IN  IF m = None \/ FloatOf(RemoveCommas(m[1])) = None
             THEN ReturningPattern(cleaned, k + 1)
             ELSE k

(***************************************************************************)
(* validate_price                                                          *)
(***************************************************************************)
MinPrice == [num |-> 1, den |-> 100]

MaxPrice == [num |-> 50000, den |-> 1]

\* validate_price with the lower bound left out of the range
validate_price_exclusive(price) == ~Leq(price, MinPrice) /\ Leq(price, MaxPrice)

\* validate_price without its upper bound
validate_price_no_upper(price) == Leq(MinPrice, price)

validate_price(price) == Leq(MinPrice, price) /\ Leq(price, MaxPrice)

\* truth value of an Optional[float]: None and 0.0 are false
Truthy(price) == price # None /\ price[1].num # 0

(***************************************************************************)
(* The parsed page (BeautifulSoup): the nodes of the document in document  *)
(* order; parent is the index of the enclosing element, 0 at top level.    *)
(***************************************************************************)
Element(parent, tag, id, classes) ==
    [tag |-> tag, id |-> id, classes |-> classes, parent |-> parent, text |-> <<>>]

TextNode(parent, text) ==
    [tag |-> "#text", id |-> "", classes |-> {}, parent |-> parent, text |-> text]

RECURSIVE Ancestors(_, _)
Ancestors(soup, i) ==
    IF soup[i].parent = 0 THEN {}
    ELSE {soup[i].parent} \cup Ancestors(soup, soup[i].parent)

\* element.get_text(): the text nodes below the element, in document order
get_text(soup, i) ==
    Concat([j \in 1..Len(soup) |->
               IF soup[j].tag = "#text" /\ i \in Ancestors(soup, j)
               THEN soup[j].text ELSE <<>>])

(***************************************************************************)
(* CSS selectors: a selector is a sequence of compound selectors joined by *)
(* the descendant combinator; "" stands for an absent tag or id.           *)
(***************************************************************************)
Compound(tag, id, classes) == [tag |-> tag, id |-> id, classes |-> classes]

OffscreenAny == Compound("", "", {"a-offscreen"})

PriceAny == Compound("", "", {"a-price"})

ApexAny == Compound("", "", {"a-price", "a-text-price", "a-size-medium", "apexPriceToPay"})

price_selectors ==
    << <<Compound("span", "", {"a-offscreen"})>>,
       <<Compound("span", "priceblock_dealprice", {})>>,
       <<Compound("span", "priceblock_ourprice", {})>>,
       <<Compound("span", "", {"a-price-whole"})>>,
       <<Compound("span", "", {"a-price", "a-text-price", "a-size-medium", "apexPriceToPay"})>>,
       <<Compound("span", "", {"a-price-range"})>>,
       <<PriceAny, OffscreenAny>>,
       <<Compound("", "corePrice_feature_div", {}), PriceAny, OffscreenAny>>,
       <<Compound("", "apex_desktop", {}), PriceAny, OffscreenAny>>,
       <<Compound("", "", {"a-price-to-pay"}), OffscreenAny>>,
       <<Compound("", "priceblock_pactprice", {})>>,
       <<ApexAny, OffscreenAny>> >>

MatchesCompound(node, c) ==
    /\ node.tag # "#text"
    /\ c.tag = "" \/ node.tag = c.tag
    /\ c.id = "" \/ node.id = c.id
    /\ c.classes \subseteq node.classes

RECURSIVE MatchesSelector(_, _, _, _)
\* node i matches the first k compounds of the selector
MatchesSelector(soup, i, selector, k) ==
    /\ MatchesCompound(soup[i], selector[k])
    /\ k = 1 \/ \E a \in Ancestors(soup, i) : MatchesSelector(soup, a, selector, k - 1)

\* soup.select(selector): the matching elements in document order
select(soup, selector) ==
    SelectSeq([i \in 1..Len(soup) |-> i],
              LAMBDA i : MatchesSelector(soup, i, selector, Len(selector)))

Unknown == <<"U","n","k","n","o","w","n">>

\* soup.find('title') and its text, "Unknown" without a title element
page_title(soup) ==
    LET ts == {i \in 1..Len(soup) : soup[i].tag = "title"}
    IN  IF ts = {} THEN Unknown
        ELSE get_text(soup, CHOOSE i \in ts : \A j \in ts : i <= j)

TitleLogLimit == 100

(***************************************************************************)
(* Bot detection.                                                          *)
(***************************************************************************)
bot_indicators ==
    {
<<"r","o","b","o","t"," ","c","h","e","c","k">>,
     <<"b","l","o","c","k","e","d">>,
     <<"c","a","p","t","c","h","a">>,
     <<"u","n","u","s","u","a","l"," ","t","r","a","f","f","i","c">>,
     <<"a","u","t","o","m","a","t","e","d"," ","q","u","e","r","i","e","s">>,
     <<"s","o","r","r","y",","," ","w","e"," ","j","u","s","t"," ","n","e","e","d"," ","t",
        "o"," ","m","a","k","e"," ","s","u","r","e"," ","y","o","u","'","r","e"," ","n","o",
        "t"," ","a"," ","r","o","b","o","t">>,
     <<"e","n","t","e","r"," ","t","h","e"," ","c","h","a","r","a","c","t","e","r","s"," ",
        "y","o","u"," ","s","e","e"," ","b","e","l","o","w">>,
     <<"t","y","p","e"," ","t","h","e"," ","c","h","a","r","a","c","t","e","r","s"," ","y",
        "o","u"," ","s","e","e"," ","i","n"," ","t","h","i","s"," ","i","m","a","g","e">>}

\* the search without response.text.lower()
bot_detected_case_sensitive(text) ==
    \E indicator \in bot_indicators : Contains(text, indicator)

\* any(indicator in response_text for indicator in bot_indicators)
bot_detected(text) ==
    LET response_text == Lower(text)
    IN  \E indicator \in bot_indicators : Contains(response_text, indicator)

Amazon == <<"a","m","a","z","o","n">>

ErrorWord == <<"e","r","r","o","r">>

AmazonCom == <<"a","m","a","z","o","n",".","c","o","m">>

(***************************************************************************)
(* The pages the server may answer with: the response text and its parse.  *)
(***************************************************************************)
\* <title>Amazon.com: Widget</title><span class="a-price"><span class="a-offscreen">$799.99</span></span>
PageOffscreenText ==
    <<"<","t","i","t","l","e",">","A","m","a","z","o","n",".","c","o","m",":"," ","W","i",
      "d","g","e","t","<","/","t","i","t","l","e",">","<","s","p","a","n"," ","c","l","a",
      "s","s","=","\"","a","-","p","r","i","c","e","\"",">","<","s","p","a","n"," ","c","l",
      "a","s","s","=","\"","a","-","o","f","f","s","c","r","e","e","n","\"",">","$","7","9",
      "9",".","9","9","<","/","s","p","a","n",">","<","/","s","p","a","n",">">>

PageOffscreenSoup ==
    <<Element(0, "title", "", {}),
      TextNode(1, <<"A","m","a","z","o","n",".","c","o","m",":"," ","W","i","d","g","e","t">>),
      Element(0, "span", "", {"a-price"}),
      Element(3, "span", "", {"a-offscreen"}),
      TextNode(4, <<"$","7","9","9",".","9","9">>)>>

\* <title>Amazon.com</title><span class="a-offscreen">$19.99</span><span class="a-offscreen">$21.99</span><span id="priceblock_ourprice">$24.99</span>
PageFirstAndThirdText ==
    <<"<","t","i","t","l","e",">","A","m","a","z","o","n",".","c","o","m","<","/","t","i",
      "t","l","e",">","<","s","p","a","n"," ","c","l","a","s","s","=","\"","a","-","o","f",
      "f","s","c","r","e","e","n","\"",">","$","1","9",".","9","9","<","/","s","p","a","n",
      ">","<","s","p","a","n"," ","c","l","a","s","s","=","\"","a","-","o","f","f","s","c",
      "r","e","e","n","\"",">","$","2","1",".","9","9","<","/","s","p","a","n",">","<","s",
      "p","a","n"," ","i","d","=","\"","p","r","i","c","e","b","l","o","c","k","_","o","u",
      "r","p","r","i","c","e","\"",">","$","2","4",".","9","9","<","/","s","p","a","n",">">>

PageFirstAndThirdSoup ==
    <<Element(0, "title", "", {}),
      TextNode(1, <<"A","m","a","z","o","n",".","c","o","m">>),
      Element(0, "span", "", {"a-offscreen"}),
      TextNode(3, <<"$","1","9",".","9","9">>),
      Element(0, "span", "", {"a-offscreen"}),
      TextNode(5, <<"$","2","1",".","9","9">>),
      Element(0, "span", "priceblock_ourprice", {}),
      TextNode(7, <<"$","2","4",".","9","9">>)>>

\* <span class="a-offscreen">N/A</span><span id="priceblock_dealprice">$75,000.00</span><span class="a-price-whole">0.</span><span class="a-price a-text-price a-size-medium apexPriceToPay"> $24.50\n</span>
PageFifthOnlyText ==
    <<"<","s","p","a","n"," ","c","l","a","s","s","=","\"","a","-","o","f","f","s","c","r",
      "e","e","n","\"",">","N","/","A","<","/","s","p","a","n",">","<","s","p","a","n"," ",
      "i","d","=","\"","p","r","i","c","e","b","l","o","c","k","_","d","e","a","l","p","r",
      "i","c","e","\"",">","$","7","5",",","0","0","0",".","0","0","<","/","s","p","a","n",
      ">","<","s","p","a","n"," ","c","l","a","s","s","=","\"","a","-","p","r","i","c","e",
      "-","w","h","o","l","e","\"",">","0",".","<","/","s","p","a","n",">","<","s","p","a",
      "n"," ","c","l","a","s","s","=","\"","a","-","p","r","i","c","e"," ","a","-","t","e",
      "x","t","-","p","r","i","c","e"," ","a","-","s","i","z","e","-","m","e","d","i","u",
      "m"," ","a","p","e","x","P","r","i","c","e","T","o","P","a","y","\"",">"," ","$","2",
      "4",".","5","0","\n","<","/","s","p","a","n",">">>

PageFifthOnlySoup ==
    <<Element(0, "span", "", {"a-offscreen"}),
      TextNode(1, <<"N","/","A">>),
      Element(0, "span", "priceblock_dealprice", {}),
      TextNode(3, <<"$","7","5",",","0","0","0",".","0","0">>),
      Element(0, "span", "", {"a-price-whole"}),
      TextNode(5, <<"0",".">>),
      Element(0, "span", "", {"a-price", "a-text-price", "a-size-medium", "apexPriceToPay"}),
      TextNode(7, <<" ","$","2","4",".","5","0","\n">>)>>

\* <title>Amazon.com</title><div class="a-price-to-pay"><b class="a-offscreen">$3.50</b></div>
PageToPayText ==
    <<"<","t","i","t","l","e",">","A","m","a","z","o","n",".","c","o","m","<","/","t","i",
      "t","l","e",">","<","d","i","v"," ","c","l","a","s","s","=","\"","a","-","p","r","i",
      "c","e","-","t","o","-","p","a","y","\"",">","<","b"," ","c","l","a","s","s","=","\"",
      "a","-","o","f","f","s","c","r","e","e","n","\"",">","$","3",".","5","0","<","/","b",
      ">","<","/","d","i","v",">">>

PageToPaySoup ==
    <<Element(0, "title", "", {}),
      TextNode(1, <<"A","m","a","z","o","n",".","c","o","m">>),
      Element(0, "div", "", {"a-price-to-pay"}),
      Element(3, "b", "", {"a-offscreen"}),
      TextNode(4, <<"$","3",".","5","0">>)>>

\* <title>Page Not Found</title><span class="a-offscreen">Currently unavailable</span>
PageNoPriceText ==
    <<"<","t","i","t","l","e",">","P","a","g","e"," ","N","o","t"," ","F","o","u","n","d",
      "<","/","t","i","t","l","e",">","<","s","p","a","n"," ","c","l","a","s","s","=","\"",
      "a","-","o","f","f","s","c","r","e","e","n","\"",">","C","u","r","r","e","n","t","l",
      "y"," ","u","n","a","v","a","i","l","a","b","l","e","<","/","s","p","a","n",">">>

PageNoPriceSoup ==
    <<Element(0, "title", "", {}),
      TextNode(1, <<"P","a","g","e"," ","N","o","t"," ","F","o","u","n","d">>),
      Element(0, "span", "", {"a-offscreen"}),
      TextNode(3, <<"C","u","r","r","e","n","t","l","y"," ","u","n","a","v","a","i","l","a","b",
             "l","e">>)>>

\* <title>Amazon.com</title><p>Type the characters you see in this image:</p><span class="a-offscreen">$9.99</span>
PageCaptchaText ==
    <<"<","t","i","t","l","e",">","A","m","a","z","o","n",".","c","o","m","<","/","t","i",
      "t","l","e",">","<","p",">","T","y","p","e"," ","t","h","e"," ","c","h","a","r","a",
      "c","t","e","r","s"," ","y","o","u"," ","s","e","e"," ","i","n"," ","t","h","i","s",
      " ","i","m","a","g","e",":","<","/","p",">","<","s","p","a","n"," ","c","l","a","s",
      "s","=","\"","a","-","o","f","f","s","c","r","e","e","n","\"",">","$","9",".","9","9",
      "<","/","s","p","a","n",">">>

PageCaptchaSoup ==
    <<Element(0, "title", "", {}),
      TextNode(1, <<"A","m","a","z","o","n",".","c","o","m">>),
      Element(0, "p", "", {}),
      TextNode(3, <<"T","y","p","e"," ","t","h","e"," ","c","h","a","r","a","c","t","e","r","s",
             " ","y","o","u"," ","s","e","e"," ","i","n"," ","t","h","i","s"," ","i","m",
             "a","g","e",":">>),
      Element(0, "span", "", {"a-offscreen"}),
      TextNode(5, <<"$","9",".","9","9">>)>>

\* <title>Amazon.com</title><p>Please enter the characters you see in this image</p><span class="a-offscreen">$5.00</span>
PageSpecPhraseText ==
    <<"<","t","i","t","l","e",">","A","m","a","z","o","n",".","c","o","m","<","/","t","i",
      "t","l","e",">","<","p",">","P","l","e","a","s","e"," ","e","n","t","e","r"," ","t",
      "h","e"," ","c","h","a","r","a","c","t","e","r","s"," ","y","o","u"," ","s","e","e",
      " ","i","n"," ","t","h","i","s"," ","i","m","a","g","e","<","/","p",">","<","s","p",
      "a","n"," ","c","l","a","s","s","=","\"","a","-","o","f","f","s","c","r","e","e","n",
      "\"",">","$","5",".","0","0","<","/","s","p","a","n",">">>

PageSpecPhraseSoup ==
    <<Element(0, "title", "", {}),
      TextNode(1, <<"A","m","a","z","o","n",".","c","o","m">>),
      Element(0, "p", "", {}),
      TextNode(3, <<"P","l","e","a","s","e"," ","e","n","t","e","r"," ","t","h","e"," ","c","h",
             "a","r","a","c","t","e","r","s"," ","y","o","u"," ","s","e","e"," ","i","n",
             " ","t","h","i","s"," ","i","m","a","g","e">>),
      Element(0, "span", "", {"a-offscreen"}),
      TextNode(5, <<"$","5",".","0","0">>)>>

\* <div id="captcha-box"></div><span class="a-offscreen">$9.99</span>
PageBlockedMarkupText ==
    <<"<","d","i","v"," ","i","d","=","\"","c","a","p","t","c","h","a","-","b","o","x","\"",
      ">","<","/","d","i","v",">","<","s","p","a","n"," ","c","l","a","s","s","=","\"","a",
      "-","o","f","f","s","c","r","e","e","n","\"",">","$","9",".","9","9","<","/","s","p",
      "a","n",">">>

PageBlockedMarkupSoup ==
    <<Element(0, "div", "captcha-box", {}),
      Element(0, "span", "", {"a-offscreen"}),
      TextNode(2, <<"$","9",".","9","9">>)>>

PageOffscreen == [text |-> PageOffscreenText, soup |-> PageOffscreenSoup]

PageFirstAndThird == [text |-> PageFirstAndThirdText, soup |-> PageFirstAndThirdSoup]

PageFifthOnly == [text |-> PageFifthOnlyText, soup |-> PageFifthOnlySoup]

PageToPay == [text |-> PageToPayText, soup |-> PageToPaySoup]

PageNoPrice == [text |-> PageNoPriceText, soup |-> PageNoPriceSoup]

PageCaptcha == [text |-> PageCaptchaText, soup |-> PageCaptchaSoup]

PageSpecPhrase == [text |-> PageSpecPhraseText, soup |-> PageSpecPhraseSoup]

PageBlockedMarkup == [text |-> PageBlockedMarkupText, soup |-> PageBlockedMarkupSoup]

Pages ==
    <<PageOffscreen,
      PageFirstAndThird,
      PageFifthOnly,
      PageToPay,
      PageNoPrice,
      PageCaptcha,
      PageSpecPhrase,
      PageBlockedMarkup>>

\* https://www.amazon.com/dp/B01
AmazonUrl ==
    <<"h","t","t","p","s",":","/","/","w","w","w",".","a","m","a","z","o","n",".","c","o",
      "m","/","d","p","/","B","0","1">>

\* https://shop.example.org/p/1
OtherUrl ==
    <<"h","t","t","p","s",":","/","/","s","h","o","p",".","e","x","a","m","p","l","e",".",
      "o","r","g","/","p","/","1">>


(***************************************************************************)
(* The session headers (setup_session).                                    *)
(***************************************************************************)
user_agents ==
    <<"Mozilla/5.0 (Windows NT 10.0; Win64; x64) AppleWebKit/537.36 (KHTML, like Gecko) Chrome/120.0.0.0 Safari/537.36",
      "Mozilla/5.0 (Macintosh; Intel Mac OS X 10_15_7) AppleWebKit/537.36 (KHTML, like Gecko) Chrome/120.0.0.0 Safari/537.36",
      "Mozilla/5.0 (Windows NT 10.0; Win64; x64; rv:121.0) Gecko/20100101 Firefox/121.0",
      "Mozilla/5.0 (Macintosh; Intel Mac OS X 10_15_7) AppleWebKit/605.1.15 (KHTML, like Gecko) Version/17.2 Safari/605.1.15",
      "Mozilla/5.0 (X11; Linux x86_64) AppleWebKit/537.36 (KHTML, like Gecko) Chrome/120.0.0.0 Safari/537.36",
      "Mozilla/5.0 (Windows NT 10.0; Win64; x64) AppleWebKit/537.36 (KHTML, like Gecko) Edge/120.0.0.0">>

\* dict.update: the entries of more replace and extend those of headers
Update(headers, more) ==
    [n \in DOMAIN headers \cup DOMAIN more |->
        IF n \in DOMAIN more THEN more[n] ELSE headers[n]]

\* dict.clear()
Clear(headers) == [n \in {} |-> ""]

HeaderTemplate(ua) ==
    "User-Agent" :> ua
    @@ "Accept" :> "text/html,application/xhtml+xml,application/xml;q=0.9,image/avif,image/webp,image/apng,*/*;q=0.8"
    @@ "Accept-Language" :> "en-US,en;q=0.9"
    @@ "Accept-Encoding" :> "gzip, deflate, br"
    @@ "Connection" :> "keep-alive"
    @@ "Upgrade-Insecure-Requests" :> "1"
    @@ "Sec-Fetch-Dest" :> "document"
    @@ "Sec-Fetch-Mode" :> "navigate"
    @@ "Sec-Fetch-Site" :> "none"
    @@ "Sec-Fetch-User" :> "?1"
    @@ "Cache-Control" :> "max-age=0"
    @@ "sec-ch-ua" :> "\"Not_A Brand\";v=\"8\", \"Chromium\";v=\"120\", \"Google Chrome\";v=\"120\""
    @@ "sec-ch-ua-mobile" :> "?0"
    @@ "sec-ch-ua-platform" :> "\"Windows\""

\* setup_session with the two random draws it makes: the user agent and
\* whether DNT is added
setup_session(headers, ua, dnt) ==
    LET fresh == Update(Clear(headers), HeaderTemplate(ua))
    IN  IF dnt THEN Update(fresh, "DNT" :> "1") ELSE fresh

\* the Referer added by get_price for a url that contains 'amazon.com'
add_referer(headers, u) ==
    IF Contains(u, AmazonCom)
    THEN Update(headers, "Referer" :> "https://www.amazon.com/")
    ELSE headers

(***************************************************************************)
(* Exceptions: the classes get_price can see and its except clauses.       *)
(***************************************************************************)
\* requests.exceptions.RequestException and its subclasses
RequestExceptions == {"RequestException", "Timeout", "ConnectionError", "HTTPError"}

\* Exception and its subclasses
Exceptions == RequestExceptions \cup {"Exception"}

\* isinstance(e, class named by the except clause)
IsInstance(e, clause) ==
    CASE clause = "Timeout" -> e = "Timeout"
      [] clause = "RequestException" -> e \in RequestExceptions
      [] clause = "Exception" -> e \in Exceptions

\* the retry loop without its last except clause
except_clauses_no_catch_all ==
    <<[class |-> "Timeout", log |-> "warn_timeout"],
      [class |-> "RequestException", log |-> "warn_request_failed"]>>

\* the except clauses of the retry loop, in order, with the log call of each
except_clauses ==
    <<[class |-> "Timeout", log |-> "warn_timeout"],
      [class |-> "RequestException", log |-> "warn_request_failed"],
      [class |-> "Exception", log |-> "error_unexpected"]>>

\* the log call of the first except clause that catches e, "" when none does
Handler(e) ==
    LET catching == {k \in DOMAIN except_clauses : IsInstance(e, except_clauses[k].class)}
    IN  IF catching = {} THEN ""
        ELSE except_clauses[CHOOSE k \in catching : \A l \in catching : k <= l].log

\* the status is never checked
raises_for_status_never(status) == FALSE

\* response.raise_for_status()
raises_for_status(status) == 400 <= status /\ status < 600

(***************************************************************************)
(* The walk over the selectors of one parsed page.                         *)
(***************************************************************************)
RECURSIVE WalkElementsLast(_, _, _)
\* the inner loop without its return: the last valid price wins
WalkElementsLast(soup, price_elements, j) ==
    IF j > Len(price_elements) THEN None
    ELSE LET later == WalkElementsLast(soup, price_elements, j + 1)
             price == parse_price(Strip(get_text(soup, price_elements[j])))
         IN  IF later # None THEN later
             ELSE IF Truthy(price) /\ validate_price(price[1]) THEN price
             ELSE None

RECURSIVE WalkElements(_, _, _)
\* the inner for loop from the j-th matching element on: the first price that
\* is truthy and validates
WalkElements(soup, price_elements, j) ==
    IF j > Len(price_elements) THEN None
    ELSE LET price_text == Strip(get_text(soup, price_elements[j]))
             price == parse_price(price_text)
         IN  IF Truthy(price) /\ validate_price(price[1]) THEN price
             ELSE WalkElements(soup, price_elements, j + 1)

RECURSIVE WalkSelectors(_, _, _)
\* the outer for loop from selector k on; broken is the set of selectors
\* whose select call raises.  The result carries the price (or None), the
\* selector that gave it and the select calls made, in order.
WalkSelectors(soup, broken, k) ==
    IF k > Len(price_selectors)
    THEN [price |-> None, selector |-> 0, calls |-> <<>>]
    ELSE IF k \in broken
    THEN LET rest == WalkSelectors(soup, broken, k + 1)
         IN  [rest EXCEPT !.calls = <<[selector |-> k, raised |-> TRUE]>> \o @]
    ELSE LET price == WalkElements(soup, select(soup, price_selectors[k]), 1)
         IN  IF price # None
             THEN [price |-> price, selector |-> k,
                   calls |-> <<[selector |-> k, raised |-> FALSE]>>]
             ELSE LET rest == WalkSelectors(soup, broken, k + 1)
                  IN  [rest EXCEPT !.calls = <<[selector |-> k, raised |-> FALSE]>> \o @]

(***************************************************************************)
(* Inputs and bounds.                                                      *)
(***************************************************************************)
MaxRetries == 3

\* random.choice(user_agents) draws among the first MaxUserAgent entries
MaxUserAgent == 2

UserAgentDraws == 1..MaxUserAgent

default_max_retries == 3

Urls == {AmazonUrl, OtherUrl}

HttpStatuses == {200, 503}

\* random.uniform(-0.5, 0.5), in tenths of a second
Jitters == {-5, 0, 5}

\* random.uniform(10, 20), in tenths of a second
CoolDowns == {100, 200}

\* sets of selectors whose select call raises
BrokenSelectors == {{}, {5}}

FetchExceptions == {"Timeout", "ConnectionError", "Exception"}

\* the outcome of the indicator search on the text of each page
PageBlocked == [p \in DOMAIN Pages |-> bot_detected(Pages[p].text)]

\* the walk over the selectors on each page, for each set of raising selectors
PageWalks ==
    [p \in DOMAIN Pages |->
        [broken \in BrokenSelectors |-> WalkSelectors(Pages[p].soup, broken, 1)]]

\* the title of each page
PageTitle == [p \in DOMAIN Pages |-> page_title(Pages[p].soup)]

(***************************************************************************)
(* State.                                                                  *)
(***************************************************************************)
VARIABLES
    pc,             \* position in get_price: idle, loop, setup, request,
                    \* classify, extract, noprice, done (returned), raised
                    \* (left by an exception)
    url,            \* argument of the running call
    max_retries,    \* argument of the running call
    attempt,        \* loop variable of the retry loop
    headers,        \* self.session.headers
    response,       \* the response of the last request: status and page
    events,         \* what the running call did, in order: requests, select
                    \* calls and log records
    sleeps,         \* the time.sleep calls since the last request of the call
    draws,          \* the setup_session calls since the last request of the call
    result,         \* return value of the call, meaningful when pc = "done"
    current_price,  \* run_single_check: the value the last call returned
    current_cause,  \* why the last call returned what it returned
    parse_arg,      \* parse_price: the text handed in
    parse_result,   \* parse_price: the value returned and the pattern that gave it
    validate_arg,   \* validate_price: the price handed in
    validate_result, \* validate_price: the value returned
    price_history,  \* self.price_history: the entries of each product
    loaded,         \* the price history as load_price_history returned it
    now,            \* the clock that datetime.now() reads
    products,       \* the items of the 'products' section, in file order
    next_product,   \* run_single_check: the item the loop is at
    phase,          \* run_single_check: idle, cycle (between two items),
                    \* calling (in get_price), finished
    journal         \* what the tracker did outside get_price, in order

vars == <<pc, url, max_retries, attempt, headers, response, events, sleeps,
          draws, result, current_price, current_cause,
          parse_arg, parse_result, validate_arg, validate_result,
          price_history, loaded, now, products, next_product, phase, journal>>

caller == <<current_price, current_cause>>

\* the state of the tracker around get_price
tracker == <<price_history, loaded, now, products, next_product, phase, journal>>

\* the arguments and results of the functions called on their own
pure == <<parse_arg, parse_result, validate_arg, validate_result>>

NoResponse == [status |-> 0, page |-> 0]

\* the state of a tracker that get_price has not been called on
Idle ==
    /\ pc = "idle"
    /\ url = <<>>
    /\ max_retries = 0
    /\ attempt = 0
    /\ \E ua \in UserAgentDraws, dnt \in BOOLEAN :
          headers = setup_session(<<>>, user_agents[ua], dnt)
    /\ response = NoResponse
    /\ events = <<>>
    /\ sleeps = <<>>
    /\ draws = <<>>
    /\ result = None
    /\ current_price = None
    /\ current_cause = "none"

\* no function called on its own
NoPureCall ==
    /\ parse_arg = <<>>
    /\ parse_result = [price |-> None, pattern |-> 0]
    /\ validate_arg = Dec(0, 0)
    /\ validate_result = FALSE

Ev(ev, arg) == [ev |-> ev, attempt |-> attempt, arg |-> arg]

Sleep(kind, delay) == [kind |-> kind, attempt |-> attempt, delay |-> delay]

\* a tracker without history, products or check cycle
NoTracker ==
    /\ price_history = <<>>
    /\ loaded = <<>>
    /\ now = 0
    /\ products = <<>>
    /\ next_product = 0
    /\ phase = "idle"
    /\ journal = <<>>

Init == Idle /\ NoPureCall /\ NoTracker

(***************************************************************************)
(* get_price, step by step.                                                *)
(***************************************************************************)
\* the call get_price(u, mr)
Call(u, mr) ==
    /\ pc = "idle"
    /\ pc' = "loop"
    /\ url' = u
    /\ max_retries' = mr
    /\ attempt' = 0
    /\ events' = <<>>
    /\ sleeps' = <<>>
    /\ draws' = <<>>
    /\ result' = None
    /\ response' = NoResponse
    /\ UNCHANGED <<headers, caller, pure>>

\* base_delay + jitter floored at one second, in tenths of a second
backoff_delay(a, jitter) ==
    LET base_delay == 20 + a * 15
    IN  IF base_delay + jitter < 10 THEN 10 ELSE base_delay + jitter

\* every attempt sleeps before it starts
needs_backoff_always(a) == a >= 0

\* the retries that sleep before they start
needs_backoff(a) == a > 0

\* range(max_retries + 1)
in_range_inclusive(a, mr) == a <= mr

\* a loop that tests its budget after the first attempt only
in_range_after_first(a, mr) == a = 0 \/ a < mr

\* attempt in range(max_retries)
in_range(a, mr) == a < mr

\* the cool-down is slept after every blocked attempt
has_more_retries_always(a, mr) == a < mr

\* the cool-down is slept only if we have more retries
has_more_retries(a, mr) == a < mr - 1

\* a failure value that tells what ended the last attempt
failure_result_typed(evs) ==
    LET last == IF evs = <<>> THEN "" ELSE evs[Len(evs)].ev
    IN  Some([num |-> CASE last = "warn_bot" -> -1
                        [] last \in {"warn_timeout", "warn_request_failed"} -> -2
                        [] last \in {"warn_no_price", "warn_redirected"} -> -3
                        [] OTHER -> -4,
              den |-> 1])

\* the value get_price returns after the loop
failure_result(evs) == None

\* top of an iteration of the retry loop: the progressive delay of a retry.
\* The response of the previous iteration is not read again.
StartAttempt ==
    /\ pc = "loop"
    /\ in_range(attempt, max_retries)
    /\ IF needs_backoff(attempt)
       THEN \E jitter \in Jitters :
               sleeps' = Append(sleeps, Sleep("backoff", backoff_delay(attempt, jitter)))
       ELSE UNCHANGED sleeps
    /\ response' = NoResponse
    /\ pc' = "setup"
    /\ UNCHANGED <<url, max_retries, attempt, headers, events, draws, result, caller, pure, tracker>>

\* self.setup_session() and the Referer
SetupSession ==
    /\ pc = "setup"
    /\ \E ua \in UserAgentDraws, dnt \in BOOLEAN :
          /\ headers' = add_referer(setup_session(headers, user_agents[ua], dnt), url)
          /\ draws' = Append(draws, [attempt |-> attempt, ua |-> ua, dnt |-> dnt])
    /\ pc' = "request"
    /\ UNCHANGED <<url, max_retries, attempt, response, events, sleeps, result, caller, pure, tracker>>

\* an exception of class e ends the attempt in the except clause that catches
\* it; one that no clause catches leaves get_price
Raise(e, evs) ==
    IF Handler(e) = ""
    THEN /\ events' = evs
         /\ pc' = "raised"
         /\ UNCHANGED attempt
    ELSE /\ events' = Append(evs, Ev(Handler(e), e))
         /\ attempt' = attempt + 1
         /\ pc' = "loop"

\* self.session.get(...) raises
RequestFails ==
    /\ pc = "request"
    /\ \E e \in FetchExceptions : Raise(e, Append(events, Ev("request", 0)))
    /\ sleeps' = <<>>
    /\ draws' = <<>>
    /\ UNCHANGED <<url, max_retries, headers, response, result, caller, pure, tracker>>

\* self.session.get(...) returns a response; response.raise_for_status()
RequestReturns ==
    /\ pc = "request"
    /\ \E status \in HttpStatuses, page \in DOMAIN Pages :
          /\ response' = [status |-> status, page |-> page]
          /\ IF raises_for_status(status)
             THEN Raise("HTTPError", Append(events, Ev("request", 0)))
             ELSE /\ events' = Append(events, Ev("request", 0))
                  /\ pc' = "classify"
                  /\ UNCHANGED attempt
    /\ sleeps' = <<>>
    /\ draws' = <<>>
    /\ UNCHANGED <<url, max_retries, headers, result, caller, pure, tracker>>

\* the bot indicators in the response text
Classify ==
    /\ pc = "classify"
    /\ IF PageBlocked[response.page]
       THEN /\ IF has_more_retries(attempt, max_retries)
               THEN \E delay \in CoolDowns :
                       sleeps' = Append(sleeps, Sleep("cooldown", delay))
               ELSE UNCHANGED sleeps
            /\ events' = Append(events, Ev("warn_bot", 0))
            /\ attempt' = attempt + 1
            /\ pc' = "loop"
       ELSE /\ pc' = "extract"
            /\ UNCHANGED <<events, sleeps, attempt>>
    /\ UNCHANGED <<url, max_retries, headers, response, draws, result, caller, pure, tracker>>

\* the select calls of a walk as events
CallEvents(calls) ==
    Concat([i \in 1..Len(calls) |->
               IF calls[i].raised
               THEN <<Ev("select", calls[i].selector), Ev("debug_selector_error", calls[i].selector)>>
               ELSE <<Ev("select", calls[i].selector)>>])

\* BeautifulSoup(...) raises
ParseFails ==
    /\ pc = "extract"
    /\ Raise("Exception", events)
    /\ UNCHANGED <<url, max_retries, headers, response, sleeps, draws, result, caller, pure, tracker>>

\* BeautifulSoup(...) and the loop over the selectors
Extract ==
    /\ pc = "extract"
    /\ \E broken \in BrokenSelectors :
          LET walk == PageWalks[response.page][broken]
          IN  IF walk.price # None
              THEN /\ events' = events \o CallEvents(walk.calls)
                                       \o <<Ev("info_found_price", walk.selector)>>
                   /\ result' = walk.price
                   /\ pc' = "done"
              ELSE /\ events' = events \o CallEvents(walk.calls)
                   /\ pc' = "noprice"
                   /\ UNCHANGED result
    /\ UNCHANGED <<url, max_retries, attempt, headers, response, sleeps, draws, caller, pure, tracker>>

\* the title is logged and get_price returns at once
NoPriceFoundReturns ==
    /\ pc = "noprice"
    /\ events' = Append(events, Ev("warn_no_price",
                                   Take(PageTitle[response.page], TitleLogLimit)))
    /\ result' = None
    /\ pc' = "done"
    /\ UNCHANGED <<url, max_retries, attempt, headers, response, sleeps, draws, caller, pure, tracker>>

\* no selector gave a price: the title is logged and the attempt ends
NoPriceFound ==
    /\ pc = "noprice"
    /\ LET title == PageTitle[response.page]
           warn == Ev("warn_no_price", Take(title, TitleLogLimit))
       IN  IF ~Contains(Lower(title), Amazon) /\ ~Contains(Lower(title), ErrorWord)
           THEN events' = events \o <<warn, Ev("warn_redirected", 0)>>
           ELSE events' = Append(events, warn)
    /\ attempt' = attempt + 1
    /\ pc' = "loop"
    /\ UNCHANGED <<url, max_retries, headers, response, sleeps, draws, result, caller, pure, tracker>>

\* the retry loop is over: the error is logged and None returned
GiveUp ==
    /\ pc = "loop"
    /\ ~in_range(attempt, max_retries)
    /\ events' = Append(events, Ev("error_failed", max_retries))
    /\ result' = failure_result(events)
    /\ pc' = "done"
    /\ UNCHANGED <<url, max_retries, attempt, headers, response, sleeps, draws, caller, pure, tracker>>

GetPriceStep ==
    \/ StartAttempt
    \/ SetupSession
    \/ RequestFails
    \/ RequestReturns
    \/ Classify
    \/ ParseFails
    \/ Extract
    \/ NoPriceFound
    \/ GiveUp

\* get_price called with any retry budget
CallAny == \E u \in Urls, mr \in (-1)..MaxRetries : Call(u, mr) /\ UNCHANGED tracker

Next == CallAny \/ GetPriceStep

Spec == Init /\ [][Next]_vars

\* get_price called on one url with any retry budget
CallAnyBudget == \E mr \in (-1)..MaxRetries : Call(AmazonUrl, mr) /\ UNCHANGED tracker

NextFair == CallAnyBudget \/ GetPriceStep

\* the code runs on: get_price is synchronous, its request has a timeout and
\* its sleeps are bounded
FairSpec == Init /\ [][NextFair]_vars /\ WF_vars(GetPriceStep)

\* https://www.Amazon.com/dp/B01
MixedCaseUrl ==
    <<"h","t","t","p","s",":","/","/","w","w","w",".","A","m","a","z","o","n",".","c","o",
      "m","/","d","p","/","B","0","1">>

\* get_price called as run_single_check calls it, with any url of the
\* configuration
CallAnyUrl ==
    \E u \in Urls \cup {MixedCaseUrl} : Call(u, default_max_retries) /\ UNCHANGED tracker

NextAnyUrl == CallAnyUrl \/ GetPriceStep

SpecAnyUrl == Init /\ [][NextAnyUrl]_vars

(***************************************************************************)
(* The caller, run_single_check: get_price(url) with the default retry     *)
(* budget, one call after the other.                                       *)
(***************************************************************************)
\* what ended the last attempt of a finished call
Cause(res, evs) ==
    IF res # None THEN "Price"
    ELSE IF Len(evs) < 2 THEN "NoAttempt"
    ELSE LET last == evs[Len(evs) - 1].ev
         IN  CASE last = "warn_bot" -> "BlockedExhausted"
               [] last \in {"warn_timeout", "warn_request_failed"} -> "NetworkExhausted"
               [] last \in {"warn_no_price", "warn_redirected"} -> "NoPriceFound"
               [] OTHER -> "Unexpected"

\* current_price = self.get_price(url): the call
CallDefault == \E u \in Urls : Call(u, default_max_retries) /\ UNCHANGED tracker

\* current_price = self.get_price(url): the assignment of the returned value
Return ==
    /\ pc = "done"
    /\ current_price' = result
    /\ current_cause' = Cause(result, events)
    /\ pc' = "idle"
    /\ UNCHANGED <<url, max_retries, attempt, headers, response, events, sleeps, draws, result, pure, tracker>>

NextCaller == CallDefault \/ Return \/ GetPriceStep

SpecCaller == Init /\ [][NextCaller]_vars

(***************************************************************************)
(* Vocabulary of the properties.                                           *)
(***************************************************************************)
EventsOf(ev) == {i \in DOMAIN events : events[i].ev = ev}

LastEv == IF events = <<>> THEN "" ELSE events[Len(events)].ev

\* 0.01 <= p <= 50000, on the exact decimal
InPriceRange(p) == p.den <= 100 * p.num /\ p.num <= 50000 * p.den

\* the phrase occurs in the text, letter case aside
HasPhrase(text, phrase) ==
    \E off \in 0..(Len(text) - Len(phrase)) :
        \A j \in 1..Len(phrase) : LowerChar(text[off + j]) = phrase[j]

IndicatorsIn(text) == {ind \in bot_indicators : HasPhrase(text, ind)}

\* the page of the last response
Page == Pages[response.page]

\* the indicators in the text of each page
PageIndicators == [p \in DOMAIN Pages |-> IndicatorsIn(Pages[p].text)]

\* the attempt that made the last request
LastRequestAttempt ==
    LET rs == EventsOf("request")
    IN  events[CHOOSE i \in rs : \A j \in rs : j <= i].attempt

\* the last response has been dealt with
Answered == response # NoResponse /\ pc # "classify"

\* the attempt of the last response was marked as blocked
MarkedBlocked ==
    \E i \in EventsOf("warn_bot") : events[i].attempt = LastRequestAttempt

\* the selectors consulted in attempt a, in order
Consulted(a) ==
    LET calls == SelectSeq(events, LAMBDA e : e.ev = "select" /\ e.attempt = a)
    IN  [i \in 1..Len(calls) |-> calls[i].arg]

\* the selectors whose select call raised in attempt a
RaisedIn(a) ==
    {events[i].arg : i \in {j \in EventsOf("debug_selector_error") : events[j].attempt = a}}

\* the candidates of a page: selector k and element i matching it, selectors
\* in skipped aside
Candidates(soup, skipped) ==
    {c \in (DOMAIN price_selectors \ skipped) \X (1..Len(soup)) :
        MatchesSelector(soup, c[2], price_selectors[c[1]], Len(price_selectors[c[1]]))}

ValueOf(soup, c) == parse_price(Strip(get_text(soup, c[2])))

\* the candidates of each page and the value parsed from each
PageCandidates == [p \in DOMAIN Pages |-> Candidates(Pages[p].soup, {})]

PageValues ==
    [p \in DOMAIN Pages |-> [c \in PageCandidates[p] |-> ValueOf(Pages[p].soup, c)]]

\* the candidates of the last response, selectors in skipped aside
CandidatesNow(skipped) == {c \in PageCandidates[response.page] : c[1] \notin skipped}

ValueNow(c) == PageValues[response.page][c]

IsValidNow(c) == ValueNow(c) # None /\ InPriceRange(ValueNow(c)[1])

\* selector order first, document order second
Before(c, d) == c[1] < d[1] \/ (c[1] = d[1] /\ c[2] < d[2])

UpTo(n) == [i \in 1..n |-> i]

\* the walk over the selectors has just ended
Extracted == pc = "noprice" \/ (pc = "done" /\ result # None)

(***************************************************************************)
(* C1: whenever get_price returns a price p, 0.01 <= p <= 50000 and p is   *)
(* the parsed text of an element that one of the price selectors matches   *)
(* in a response that did not raise for its status and holds no bot        *)
(* indicator.                                                              *)
(***************************************************************************)
C1_ReturnedPriceValidFromCleanPage ==
    (pc = "done" /\ result # None) =>
        /\ InPriceRange(result[1])
        /\ response # NoResponse
        /\ response.status < 400
        /\ PageIndicators[response.page] = {}
        /\ \E c \in CandidatesNow({}) : ValueNow(c) = result

\* a price returned by a retry
C1_Witness ==
    /\ pc = "done"
    /\ attempt = 2
    /\ result = Some(Dec(79999, 2))

(***************************************************************************)
(* C2: on a clean page the returned price is the value of the first        *)
(* candidate, in selector order and then document order, that parses and   *)
(* validates; exactly the selectors up to that one are consulted, all of   *)
(* them when there is no such candidate.  With the 1st and 3rd selectors   *)
(* valid the 1st wins; with only the 5th valid its value is returned.      *)
(***************************************************************************)
C2_FirstValidCandidateWins ==
    /\ (pc = "done" /\ result # None) =>
          \E c \in CandidatesNow(RaisedIn(attempt)) :
              /\ IsValidNow(c)
              /\ ValueNow(c) = result
              /\ \A d \in CandidatesNow(RaisedIn(attempt)) : IsValidNow(d) => ~Before(d, c)
              /\ Consulted(attempt) = UpTo(c[1])
    /\ pc = "noprice" =>
          /\ \A d \in CandidatesNow(RaisedIn(attempt)) : ~IsValidNow(d)
          /\ Consulted(attempt) = UpTo(Len(price_selectors))
    /\ (Extracted /\ Page = PageFirstAndThird) =>
          /\ result = Some(Dec(1999, 2))
          /\ Consulted(attempt) = UpTo(1)
    /\ (Extracted /\ Page = PageFifthOnly /\ RaisedIn(attempt) = {}) =>
          /\ result = Some(Dec(2450, 2))
          /\ Consulted(attempt) = UpTo(5)

\* only the 5th selector gives a valid price, after candidates of the 1st,
\* 2nd and 4th that do not parse or validate
C2_Witness ==
    /\ pc = "done"
    /\ result # None
    /\ Page = PageFifthOnly
    /\ result = Some(Dec(2450, 2))
    /\ Consulted(attempt) = UpTo(5)

(***************************************************************************)
(* C3: when every attempt of a call with a budget of at least one ends in  *)
(* a network failure (timeout, connection error, error status), the call   *)
(* returns None after max_retries requests and never calls select.         *)
(***************************************************************************)
NetworkFailures == EventsOf("warn_timeout") \cup EventsOf("warn_request_failed")

C3_NetworkExhaustedWithoutExtraction ==
    (pc = "done" /\ max_retries >= 1 /\ Cardinality(NetworkFailures) = max_retries) =>
        /\ result = None
        /\ EventsOf("select") = {}
        /\ Cardinality(EventsOf("request")) = max_retries
        /\ LastEv = "error_failed"

\* three timeouts in a row with max_retries = 3
C3_Witness ==
    /\ pc = "done"
    /\ max_retries = 3
    /\ Cardinality(EventsOf("warn_timeout")) = 3
    /\ result = None

(***************************************************************************)
(* C4 as claimed: a response whose body holds a bot indicator is marked    *)
(* blocked whatever its status, and no selector is tried on it.            *)
(***************************************************************************)
C4_BlockedWhateverStatus ==
    (Answered /\ PageIndicators[response.page] # {}) =>
        /\ MarkedBlocked
        /\ Consulted(LastRequestAttempt) = <<>>

(***************************************************************************)
(* C4 as amended: a response below status 400 whose body holds a bot       *)
(* indicator is marked blocked; one with an error status ends the attempt  *)
(* as a failed request, unmarked; no selector is tried on either.          *)
(***************************************************************************)
C4_BlockedUnlessErrorStatus ==
    (Answered /\ PageIndicators[response.page] # {}) =>
        /\ response.status < 400 => MarkedBlocked
        /\ response.status >= 400 =>
              /\ ~MarkedBlocked
              /\ \E i \in EventsOf("warn_request_failed") :
                    events[i].attempt = LastRequestAttempt /\ events[i].arg = "HTTPError"
        /\ Consulted(LastRequestAttempt) = <<>>

\* a 200 response with an indicator in its markup and a price element
C4_Witness ==
    /\ pc = "loop"
    /\ response.status = 200
    /\ Page = PageBlockedMarkup
    /\ MarkedBlocked

(***************************************************************************)
(* C5 as claimed: a 200 response whose body holds "please enter the        *)
(* characters you see in this image" is marked blocked.                    *)
(***************************************************************************)
SpecPhrase ==
    <<"p","l","e","a","s","e"," ","e","n","t","e","r"," ","t","h","e"," ","c","h","a","r",
      "a","c","t","e","r","s"," ","y","o","u"," ","s","e","e"," ","i","n"," ","t","h","i",
      "s"," ","i","m","a","g","e">>

TypeTheCharacters ==
    <<"t","y","p","e"," ","t","h","e"," ","c","h","a","r","a","c","t","e","r","s"," ","y",
      "o","u"," ","s","e","e"," ","i","n"," ","t","h","i","s"," ","i","m","a","g","e">>

\* the pages whose text holds the phrase
SpecPhrasePages == {p \in DOMAIN Pages : HasPhrase(Pages[p].text, SpecPhrase)}

C5_SpecPhraseBlocked ==
    (Answered /\ response.status = 200 /\ response.page \in SpecPhrasePages) => MarkedBlocked

(***************************************************************************)
(* C5 as amended: a 200 response whose only indicator is "type the         *)
(* characters you see in this image" is marked blocked; one that holds     *)
(* "please enter the characters you see in this image" and no indicator    *)
(* of the list is not.                                                     *)
(***************************************************************************)
C5_ListedPhraseBlocked ==
    /\ (Answered /\ response.status = 200
          /\ PageIndicators[response.page] = {TypeTheCharacters})
          => MarkedBlocked
    /\ (Answered /\ response.status = 200 /\ response.page \in SpecPhrasePages
          /\ PageIndicators[response.page] = {})
          => ~MarkedBlocked

\* the captcha page, answered with status 200 and marked
C5_Witness ==
    /\ Answered
    /\ response.status = 200
    /\ Page = PageCaptcha
    /\ PageIndicators[response.page] = {TypeTheCharacters}
    /\ MarkedBlocked
    /\ pc = "loop"

(***************************************************************************)
(* C6 as claimed: once a clean page has given no price, the call makes no  *)
(* further request and returns None.                                       *)
(***************************************************************************)
C6_NoPriceIsTerminal ==
    \A i \in EventsOf("warn_no_price") :
        /\ \A j \in EventsOf("request") : j < i
        /\ pc = "done" => result = None

(***************************************************************************)
(* C6 as amended: when all selectors of a clean page are exhausted without *)
(* a valid candidate, the page title is logged and that attempt ends       *)
(* without a price; the call goes on to the next attempt while the budget  *)
(* lasts and returns None only when that attempt was the last one.         *)
(***************************************************************************)
\* the attempts that ended with the title logged
NoPriceAttempts == {events[i].attempt : i \in EventsOf("warn_no_price")}

\* the title of each page as the log holds it
PageTitles == [p \in DOMAIN Pages |-> Take(page_title(Pages[p].soup), TitleLogLimit)]

C6_NoPriceEndsTheAttemptOnly ==
    /\ (pc = "loop" /\ LastEv \in {"warn_no_price", "warn_redirected"}) =>
          LET logged == EventsOf("warn_no_price")
              last == events[CHOOSE i \in logged : \A j \in logged : j <= i]
          IN  /\ last.attempt = attempt - 1
              /\ last.arg = PageTitles[response.page]
              /\ \A d \in CandidatesNow(RaisedIn(attempt - 1)) : ~IsValidNow(d)
              /\ Consulted(attempt - 1) = UpTo(Len(price_selectors))
    /\ \A a \in NoPriceAttempts :
          /\ (pc = "done" /\ a + 1 < max_retries) =>
                \E j \in EventsOf("request") : events[j].attempt = a + 1
          /\ (pc = "done" /\ a + 1 = max_retries) =>
                result = None /\ LastEv = "error_failed"

\* a price returned by an attempt that follows one without a price
C6_Witness ==
    /\ pc = "done"
    /\ result # None
    /\ NoPriceAttempts # {}

(***************************************************************************)
(* C7 as claimed: two calls that fail for different reasons (no price on   *)
(* a clean page, blocked, network) return values the caller can tell       *)
(* apart.                                                                  *)
(***************************************************************************)
FailureKinds == {"NoPriceFound", "BlockedExhausted", "NetworkExhausted"}

C7_FailureKindsDistinguishable ==
    (/\ pc = "done"
     /\ current_cause \in FailureKinds
     /\ Cause(result, events) \in FailureKinds
     /\ current_cause # Cause(result, events))
        => current_price # result

(***************************************************************************)
(* C7 as amended: a call returns a price in range or the one value None;   *)
(* calls that fail for different reasons return the same None.             *)
(***************************************************************************)
C7_OneFailureValue ==
    pc = "done" =>
        \/ /\ result # None
           /\ InPriceRange(result[1])
           /\ LastEv = "info_found_price"
        \/ /\ result = None
           /\ LastEv = "error_failed"
           /\ current_cause \in FailureKinds => current_price = result

\* a call out of budget on timeouts after a call out of budget on block pages
C7_Witness ==
    /\ pc = "done"
    /\ current_cause = "BlockedExhausted"
    /\ Cause(result, events) = "NetworkExhausted"
    /\ current_price = result

(***************************************************************************)
(* C8: whatever the attempts end in (timeout, connection error, error      *)
(* status, block page, raising selector, unexpected exception of class     *)
(* Exception while fetching or parsing), no exception leaves get_price:    *)
(* the call ends by returning a price or None.                             *)
(***************************************************************************)
C8_NoExceptionLeavesGetPrice ==
    /\ pc # "raised"
    /\ \A i \in DOMAIN events : events[i].ev # ""
    /\ pc = "done" => result = None \/ InPriceRange(result[1])

\* a call that returned after a timeout, an unexpected exception and a
\* raising selector
C8_Witness ==
    /\ pc = "done"
    /\ EventsOf("warn_timeout") # {}
    /\ EventsOf("error_unexpected") # {}
    /\ EventsOf("debug_selector_error") # {}

(***************************************************************************)
(* C9: no sleep precedes the request of attempt 0; before the request of   *)
(* attempt i >= 1 exactly one backoff sleep is made, the last sleep before *)
(* the request, of max(1, 2 + 1.5 i + j) seconds with |j| <= 0.5, hence    *)
(* between 1.5 + 1.5 i and 2.5 + 1.5 i seconds and never under 1 second    *)
(* (tenths of a second below).                                             *)
(***************************************************************************)
Backoffs == SelectSeq(sleeps, LAMBDA s : s.kind = "backoff")

C9_BackoffBeforeEveryRetry ==
    /\ \A i \in DOMAIN sleeps : sleeps[i].kind = "backoff" => sleeps[i].attempt >= 1
    /\ pc = "request" =>
          IF attempt = 0 THEN sleeps = <<>>
          ELSE /\ Len(Backoffs) = 1
               /\ sleeps[Len(sleeps)] = Backoffs[1]
               /\ Backoffs[1].attempt = attempt
               /\ LET d == Backoffs[1].delay
                  IN  /\ d >= 10
                      /\ 15 + 15 * attempt <= d
                      /\ d <= 25 + 15 * attempt
                      /\ \E j \in (-5)..5 :
                            d = IF 20 + 15 * attempt + j < 10 THEN 10
                                ELSE 20 + 15 * attempt + j

\* the third attempt about to request after a backoff of 4.5 seconds
C9_Witness ==
    /\ pc = "request"
    /\ attempt = 2
    /\ sleeps = <<[kind |-> "backoff", attempt |-> 2, delay |-> 45]>>

(***************************************************************************)
(* C10: after a blocked attempt that is not the last of the budget, a      *)
(* cool-down of 10 to 20 seconds is slept and then the backoff of the next *)
(* attempt as well; after a blocked last attempt nothing is slept and the  *)
(* call returns None.                                                      *)
(***************************************************************************)
C10_CoolDownOnlyWithBudgetLeft ==
    /\ (pc = "request" /\ attempt >= 1 /\ LastEv = "warn_bot") =>
          /\ Len(sleeps) = 2
          /\ sleeps[1].kind = "cooldown"
          /\ sleeps[1].attempt = attempt - 1
          /\ 100 <= sleeps[1].delay /\ sleeps[1].delay <= 200
          /\ sleeps[2].kind = "backoff"
          /\ sleeps[2].attempt = attempt
    /\ \A i \in DOMAIN sleeps :
          sleeps[i].kind = "cooldown" => sleeps[i].attempt < max_retries - 1
    /\ (\E i \in EventsOf("warn_bot") : events[i].attempt = max_retries - 1) =>
          /\ sleeps = <<>>
          /\ pc \in {"loop", "done"}
          /\ pc = "done" => result = None /\ LastEv = "error_failed"

\* the second attempt about to request after a cool-down of 20 seconds
C10_Witness ==
    /\ pc = "request"
    /\ attempt = 1
    /\ LastEv = "warn_bot"
    /\ Len(sleeps) = 2
    /\ sleeps[1].delay = 200
    /\ sleeps[2].kind = "backoff"

(***************************************************************************)
(* parse_price and validate_price called on their own.                     *)
(***************************************************************************)
MaxTextLen == 5

TextAlphabet == {"1", "0", ",", ".", "$", "-"}

\* '$1,234.56'
TextDollarGrouped == <<"$","1",",","2","3","4",".","5","6">>

\* '1234.56'
TextPlainDecimal == <<"1","2","3","4",".","5","6">>

\* '1234,56'
TextCommaDecimal == <<"1","2","3","4",",","5","6">>

\* '$1,234,567.89'
TextTwoGroups == <<"$","1",",","2","3","4",",","5","6","7",".","8","9">>

\* '1.,2,3'
TextDotThenCommas == <<"1",".",",","2",",","3">>

\* ' $24.50\n'
TextPadded == <<" ","$","2","4",".","5","0","\n">>

\* 'N/A'
TextNotAvailable == <<"N","/","A">>

\* 'EUR 12,5'
TextEuroComma == <<"E","U","R"," ","1","2",",","5">>

\* price texts of pages
SampleTexts ==
    {TextDollarGrouped, TextPlainDecimal, TextCommaDecimal, TextTwoGroups,
     TextDotThenCommas, TextPadded, TextNotAvailable, TextEuroComma}

\* every text over the alphabet up to the bound, and the samples
Texts == UNION {[1..n -> TextAlphabet] : n \in 0..MaxTextLen} \cup SampleTexts

\* prices in cents around the two ends of the range
CentsNearRange == ((-50)..150) \cup (4999900..5000100)

\* the prices handed to validate_price
PriceInputs == {Dec(c, 2) : c \in CentsNearRange}

InitParse ==
    /\ Idle
    /\ NoTracker
    /\ parse_arg \in Texts
    /\ parse_result = [price |-> None, pattern |-> 0]
    /\ validate_arg = Dec(0, 0)
    /\ validate_result = FALSE

\* self.parse_price(price_text)
ParsePrice ==
    /\ pc = "idle"
    /\ pc' = "parsed"
    /\ parse_result' = [price |-> parse_price(parse_arg),
                         pattern |-> IF parse_arg = <<>> THEN 0
                                     ELSE ReturningPattern(Clean(parse_arg), 1)]
    /\ UNCHANGED <<url, max_retries, attempt, headers, response, events, sleeps, draws, result,
                   caller, parse_arg, validate_arg, validate_result, tracker>>

NextParse == ParsePrice

SpecParse == InitParse /\ [][NextParse]_vars

InitValidate ==
    /\ Idle
    /\ NoTracker
    /\ parse_arg = <<>>
    /\ parse_result = [price |-> None, pattern |-> 0]
    /\ validate_arg \in PriceInputs
    /\ validate_result = FALSE

\* self.validate_price(price)
ValidatePrice ==
    /\ pc = "idle"
    /\ pc' = "validated"
    /\ validate_result' = validate_price(validate_arg)
    /\ UNCHANGED <<url, max_retries, attempt, headers, response, events, sleeps, draws, result,
                   caller, parse_arg, parse_result, validate_arg, tracker>>

NextValidate == ValidatePrice

SpecValidate == InitValidate /\ [][NextValidate]_vars

(***************************************************************************)
(* C11: when the text, cleaned of every character other than digits, '.',  *)
(* ',' and '-', is a number with its thousands grouped by commas (leading  *)
(* digits, groups of a comma and exactly three digits, optionally a '.'    *)
(* and fractional digits) or a plain decimal number, parse_price returns   *)
(* the number read with the commas deleted; "$1,234.56" and "1234.56" both *)
(* give 1234.56.                                                           *)
(***************************************************************************)
AllDigits(s, i, j) == \A k \in i..j : IsDigit(s[k])

\* a: the end of the leading digits, b: the end of the comma groups
IsGroupedDecimal(s) ==
    \E a \in 1..Len(s), b \in 1..Len(s) :
        /\ a <= b
        /\ AllDigits(s, 1, a)
        /\ (b - a) % 4 = 0
        /\ \A g \in 0..((b - a) \div 4 - 1) :
              s[a + 4 * g + 1] = "," /\ AllDigits(s, a + 4 * g + 2, a + 4 * g + 4)
        /\ b = Len(s) \/ (s[b + 1] = "." /\ AllDigits(s, b + 2, Len(s)))

\* the decimal number written by digits and at most one '.', commas deleted
NumberOf(s) ==
    LET t == SelectSeq(s, LAMBDA c : c # ",")
        dot == {i \in 1..Len(t) : t[i] = "."}
    IN  Dec(IntOf(SelectSeq(t, IsDigit)),
            IF dot = {} THEN 0 ELSE Len(t) - (CHOOSE i \in dot : TRUE))

C11_GroupedAndPlainDecimalsParse ==
    pc = "parsed" =>
        /\ IsGroupedDecimal(Clean(parse_arg)) =>
              parse_result.price = Some(NumberOf(Clean(parse_arg)))
        /\ parse_arg \in {TextDollarGrouped, TextPlainDecimal} =>
              parse_result.price = Some(Dec(123456, 2))

\* "$1,234.56" parsed
C11_Witness ==
    /\ pc = "parsed"
    /\ parse_arg = TextDollarGrouped
    /\ IsGroupedDecimal(Clean(parse_arg))
    /\ parse_result.price = Some(Dec(123456, 2))

(***************************************************************************)
(* C12: parse_price returns None, not a number, for the empty text (the    *)
(* missing text takes the same branch) and for every text that has no      *)
(* digit left after cleaning.                                              *)
(***************************************************************************)
C12_NoDigitNoPrice ==
    (pc = "parsed" /\ (parse_arg = <<>> \/ \A i \in DOMAIN parse_arg : ~IsDigit(parse_arg[i])))
        => parse_result.price = None

\* "N/A" parsed
C12_Witness ==
    /\ pc = "parsed"
    /\ parse_arg = TextNotAvailable
    /\ parse_result.price = None

(***************************************************************************)
(* C13: validate_price(v) is true exactly when 0.01 <= v <= 50000, both    *)
(* ends included: false for 0.0 and 50000.01, true for 0.01 and 50000      *)
(* (prices in cents).                                                      *)
(***************************************************************************)
\* the price in cents
Cents(p) == (p.num * 100) \div p.den

C13_ValidExactlyInRange ==
    pc = "validated" =>
        /\ validate_result = (1 <= Cents(validate_arg) /\ Cents(validate_arg) <= 5000000)
        /\ Cents(validate_arg) \in {0, 5000001} => ~validate_result
        /\ Cents(validate_arg) \in {1, 5000000} => validate_result

\* 0.01 validated
C13_Witness ==
    /\ pc = "validated"
    /\ validate_arg = Dec(1, 2)
    /\ validate_result

(***************************************************************************)
(* C15: no text is parsed through the third pattern: whenever the cleaned  *)
(* text holds a match of the third pattern, the first pattern has matched  *)
(* and its match has parsed, so the value returned is the one of the first *)
(* pattern; "1234,56" gives 1234.                                          *)
(***************************************************************************)
C15_EuropeanPatternUnreachable ==
    pc = "parsed" =>
        /\ parse_result.pattern \in {0, 1}
        /\ (parse_arg # <<>> /\ SearchEuropean(Clean(parse_arg)) # None) =>
              /\ parse_result.pattern = 1
              /\ parse_result.price # None
        /\ parse_arg = TextCommaDecimal => parse_result.price = Some(Dec(1234, 0))

\* "1234,56" parsed: the third pattern would match, the first has returned
C15_Witness ==
    /\ pc = "parsed"
    /\ parse_arg = TextCommaDecimal
    /\ SearchEuropean(Clean(parse_arg)) = Some(TextCommaDecimal)
    /\ parse_result.pattern = 1

(***************************************************************************)
(* C16: get_price ends; it makes at most max_retries requests; it returns  *)
(* None only after max_retries attempts (none with a budget of zero or     *)
(* less), each with one request and none with a price found; once a price  *)
(* is found no further request is made.                                    *)
(***************************************************************************)
\* the attempts a budget allows
Budget == IF max_retries > 0 THEN max_retries ELSE 0

RequestsMade == Cardinality(EventsOf("request"))

RetryBudgetKept ==
    /\ RequestsMade <= Budget
    /\ pc \in {"loop", "done"} => RequestsMade = attempt + (IF result # None THEN 1 ELSE 0)
    /\ (pc = "done" /\ result = None) =>
          /\ attempt = Budget
          /\ RequestsMade = Budget
          /\ EventsOf("info_found_price") = {}
    /\ \A i \in EventsOf("info_found_price") :
          /\ i = Len(events)
          /\ pc = "done"
          /\ result # None
    /\ (pc = "done" /\ max_retries <= 0) => (RequestsMade = 0 /\ result = None)

C16_TerminatesWithinBudget ==
    /\ []RetryBudgetKept
    /\ (pc = "loop") ~> (pc = "done")

\* a call with no budget that returned None without a request
C16_Witness ==
    /\ pc = "done"
    /\ max_retries = 0
    /\ RequestsMade = 0
    /\ result = None

(***************************************************************************)
(* C20: every request is made with the headers of exactly one draw of its  *)
(* own attempt, the User-Agent drawn, DNT only if drawn, nothing left from *)
(* an earlier attempt, and with the Referer whenever the host of the url   *)
(* is on amazon.com.                                                       *)
(***************************************************************************)
\* the host of a url, in lower case: what lies between "://" and the next "/"
Host(u) ==
    LET starts == {i \in 1..(Len(u) - 2) : u[i] = ":" /\ u[i + 1] = "/" /\ u[i + 2] = "/"}
        from == IF starts = {} THEN 1
                ELSE (CHOOSE i \in starts : \A j \in starts : i <= j) + 3
        ends == {i \in from..Len(u) : u[i] = "/"}
        to == IF ends = {} THEN Len(u)
              ELSE (CHOOSE i \in ends : \A j \in ends : i <= j) - 1
    IN  Lower(SubSeq(u, from, to))

EndsWith(s, t) == Len(t) <= Len(s) /\ SubSeq(s, Len(s) - Len(t) + 1, Len(s)) = t

OnRetailerDomain(u) == Host(u) = AmazonCom \/ EndsWith(Host(u), <<".">> \o AmazonCom)

\* the request about to be made carries the headers of one draw of its attempt
FreshIdentityBeforeRequest ==
    pc = "request" =>
        /\ Len(draws) = 1
        /\ draws[1].attempt = attempt
        /\ DOMAIN headers \ {"Referer"} =
              DOMAIN HeaderTemplate("") \cup (IF draws[1].dnt THEN {"DNT"} ELSE {})
        /\ headers["User-Agent"] = user_agents[draws[1].ua]

RefererOnRetailerDomain ==
    (pc = "request" /\ OnRetailerDomain(url)) => "Referer" \in DOMAIN headers

C20_FreshIdentityAndReferer == FreshIdentityBeforeRequest /\ RefererOnRetailerDomain

(***************************************************************************)
(* The price history (update_price_history) and a tracker on which it is   *)
(* called on its own.                                                      *)
(***************************************************************************)
HistoryLimit == 100

MaxUpdates == 3

\* the product names of the configuration
ProductNames == {"widget", "gadget"}

\* the first entries kept
trim_keeps_oldest(entries) ==
    IF Len(entries) > HistoryLimit THEN SubSeq(entries, 1, HistoryLimit) ELSE entries

\* entries[-100:] when there are more than 100 entries
trim(entries) ==
    IF Len(entries) > HistoryLimit
    THEN SubSeq(entries, Len(entries) - HistoryLimit + 1, Len(entries))
    ELSE entries

update_price_history(history, product_name, price_value, timestamp) ==
    LET known == IF product_name \in DOMAIN history THEN history
                 ELSE Update(history, product_name :> <<>>)
        entry == [price |-> price_value, timestamp |-> timestamp]
    IN  [known EXCEPT ![product_name] = trim(Append(@, entry))]

\* a history file written by earlier runs: n entries of one product, the
\* last one at 19.99 when there are two or more, the others at 30.00
SavedEntries(n) ==
    [i \in 1..n |-> [price |-> IF n >= 2 /\ i = n THEN Dec(1999, 2) ELSE Dec(3000, 2),
                     timestamp |-> i]]

\* the history files load_price_history may find: none, and files with the
\* given numbers of entries for the two products (0: the product is not in
\* the file)
SavedHistory(widget, gadget) ==
    [p \in {q \in ProductNames : (IF q = "widget" THEN widget ELSE gadget) > 0} |->
        SavedEntries(IF p = "widget" THEN widget ELSE gadget)]

HistoryFiles ==
    {SavedHistory(0, 0), SavedHistory(1, 0), SavedHistory(2, 0),
     SavedHistory(HistoryLimit, 0), SavedHistory(HistoryLimit - 1, HistoryLimit),
     SavedHistory(HistoryLimit - 2, 1)}

\* the prices handed to update_price_history
HistoryPrices == {Dec(2450, 2), Dec(350, 2)}

\* the state after __init__ with the history file h
Loaded(h) ==
    /\ price_history = h
    /\ loaded = h
    /\ now = HistoryLimit + 1

InitHistory ==
    /\ Idle
    /\ NoPureCall
    /\ \E h \in HistoryFiles : Loaded(h)
    /\ products = <<>>
    /\ next_product = 0
    /\ phase = "idle"
    /\ journal = <<>>

\* what the journal holds for an appended entry
Appended(product_name, entry) ==
    [kind |-> "history", product |-> product_name, entry |-> entry]

\* self.update_price_history(product_name, price)
UpdatePriceHistory ==
    /\ Len(journal) < MaxUpdates
    /\ \E product_name \in ProductNames, price_value \in HistoryPrices :
          /\ price_history' = update_price_history(price_history, product_name, price_value, now)
          /\ journal' = Append(journal, Appended(product_name,
                                   [price |-> price_value, timestamp |-> now]))
    /\ now' = now + 1
    /\ UNCHANGED <<pc, url, max_retries, attempt, headers, response, events, sleeps, draws,
                   result, caller, pure, loaded, products, next_product, phase>>

NextHistory == UpdatePriceHistory

SpecHistory == InitHistory /\ [][NextHistory]_vars

(***************************************************************************)
(* C17: a product's history holds at most 100 entries, and they are the    *)
(* entries appended for it last, in the order they were appended, the      *)
(* newest last; an update of one product leaves the history of every other *)
(* product as it was.                                                      *)
(***************************************************************************)
\* every entry ever put into the history of product p, in order: those of
\* the loaded file, then those appended since
EverAppended(p) ==
    LET mine == SelectSeq(journal, LAMBDA r : r.kind = "history" /\ r.product = p)
    IN  (IF p \in DOMAIN loaded THEN loaded[p] ELSE <<>>)
            \o [i \in 1..Len(mine) |-> mine[i].entry]

\* the last n elements of a sequence, all of it when it is shorter
LastN(q, n) == IF Len(q) <= n THEN q ELSE [i \in 1..n |-> q[Len(q) - n + i]]

HistoryIsTheLastHundred ==
    /\ \A p \in ProductNames :
          IF EverAppended(p) = <<>>
          THEN p \notin DOMAIN price_history
          ELSE /\ p \in DOMAIN price_history
               /\ Len(price_history[p]) <= 100
               /\ price_history[p] = LastN(EverAppended(p), 100)
    /\ DOMAIN price_history \subseteq ProductNames

\* a step that appends an entry for one product leaves the others alone
OtherProductsUntouched ==
    \A p \in ProductNames :
        (/\ Len(journal') = Len(journal) + 1
         /\ journal'[Len(journal')].kind = "history"
         /\ journal'[Len(journal')].product # p) =>
            /\ (p \in DOMAIN price_history) = (p \in DOMAIN price_history')
            /\ p \in DOMAIN price_history => price_history'[p] = price_history[p]

C17_HistoryKeepsLastHundred ==
    /\ []HistoryIsTheLastHundred
    /\ [][OtherProductsUntouched]_vars

\* the oldest entries of a full history have been dropped
C17_Witness ==
    /\ "widget" \in DOMAIN price_history
    /\ Len(price_history["widget"]) = 100
    /\ Len(EverAppended("widget")) = 102
    /\ price_history["widget"][1].timestamp = 3

(***************************************************************************)
(* The check cycle (run_single_check) with send_alert and                  *)
(* save_price_history.  The email section of the configuration is taken to *)
(* be complete, so that send_alert fails only when the mail is not         *)
(* accepted.                                                               *)
(***************************************************************************)
\* product_config.split(',', 1)
SplitAtFirstComma(product_config) ==
    LET commas == {i \in 1..Len(product_config) : product_config[i] = ","}
    IN  IF commas = {} THEN <<product_config>>
        ELSE LET c == CHOOSE i \in commas : \A j \in commas : i <= j
             IN  <<SubSeq(product_config, 1, c - 1),
                   SubSeq(product_config, c + 1, Len(product_config))>>

\* the url and the target price of a product configuration, or the error
\* that run_single_check logs for it
ParseConfig(product_config) ==
    LET parts == SplitAtFirstComma(product_config)
    IN  IF Len(parts) # 2
        THEN [error |-> "invalid_config", url |-> <<>>, target_price |-> Dec(0, 0)]
        ELSE LET target == FloatOf(Strip(parts[2]))
             IN  IF target = None
                 THEN [error |-> "invalid_target", url |-> <<>>, target_price |-> Dec(0, 0)]
                 ELSE [error |-> "", url |-> Strip(parts[1]), target_price |-> target[1]]

\* "https://www.amazon.com/dp/B01, 24.50"
GoodConfig == AmazonUrl \o <<",", " ", "2", "4", ".", "5", "0">>

\* "https://shop.example.org/p/1,800"
OtherConfig == OtherUrl \o <<",", "8", "0", "0">>

\* "https://www.amazon.com/dp/B01"
MalformedConfig == AmazonUrl

\* "https://www.amazon.com/dp/B01,abc"
BadTargetConfig == AmazonUrl \o <<",", "a", "b", "c">>

Item(product_name, product_config) == [name |-> product_name, config |-> product_config]

\* the 'products' sections and history files a tracker is started with
Configurations ==
    {[products |-> <<>>, history |-> SavedHistory(0, 0)]}
    \cup {[products |-> <<Item("widget", GoodConfig)>>, history |-> SavedHistory(n, 0)] :
              n \in {0, 1, 2, HistoryLimit}}
    \cup {[products |-> <<Item("widget", MalformedConfig), Item("gadget", GoodConfig)>>,
           history |-> SavedHistory(1, 0)],
          [products |-> <<Item("widget", BadTargetConfig), Item("gadget", OtherConfig)>>,
           history |-> SavedHistory(1, 0)],
          [products |-> <<Item("widget", GoodConfig), Item("gadget", OtherConfig)>>,
           history |-> SavedHistory(2, 1)]}

InitCycle ==
    /\ Idle
    /\ NoPureCall
    /\ \E c \in Configurations :
          /\ Loaded(c.history)
          /\ products = c.products
    /\ next_product = 0
    /\ phase = "idle"
    /\ journal = <<>>

\* a - b on decimals
Minus(a, b) ==
    Normalize([num |-> a.num * b.den - b.num * a.den, den |-> a.den * b.den])

\* the alert is sent below the target only
target_hit_below(current, target) == ~Leq(target, current)

\* current_price <= target_price
target_hit(current, target) == Leq(current, target)

\* the price of the newest entry
previous_price_newest(history, product_name) ==
    LET previous_prices == IF product_name \in DOMAIN history THEN history[product_name]
                           ELSE <<>>
    IN  IF Len(previous_prices) >= 1
        THEN Some(previous_prices[Len(previous_prices)].price)
        ELSE None

\* previous_prices[-2]['price'] if len(previous_prices) >= 2 else None
previous_price(history, product_name) ==
    LET previous_prices == IF product_name \in DOMAIN history THEN history[product_name]
                           ELSE <<>>
    IN  IF Len(previous_prices) >= 2
        THEN Some(previous_prices[Len(previous_prices) - 1].price)
        ELSE None

\* the savings the mail reports, None when savings_text stays empty
savings(previous, current) ==
    IF Truthy(previous) /\ ~Leq(previous[1], current)
    THEN Some(Minus(previous[1], current))
    ELSE None

\* send_alert: what the journal holds for the mail, sent or not
send_alert(history, product_name, current, target, sent) ==
    [kind |-> "alert", product |-> product_name, current_price |-> current,
     target_price |-> target, previous_price |-> previous_price(history, product_name),
     savings |-> savings(previous_price(history, product_name), current), sent |-> sent]

\* break in the place of continue
after_skip_break(i, n) == n + 1

\* continue: the loop goes on with the next item
after_skip(i, n) == i + 1

\* what the journal holds for a step that names a product only
Note(kind, product_name) == [kind |-> kind, product |-> product_name]

\* run_single_check up to its loop
StartCycle ==
    /\ phase = "idle"
    /\ pc = "idle"
    /\ IF products = <<>>
       THEN /\ journal' = Append(journal, Note("no_products", ""))
            /\ phase' = "finished"
            /\ UNCHANGED next_product
       ELSE /\ phase' = "cycle"
            /\ next_product' = 1
            /\ UNCHANGED journal
    /\ UNCHANGED <<pc, url, max_retries, attempt, headers, response, events, sleeps, draws,
                   result, caller, pure, price_history, loaded, now, products>>

\* the top of an iteration: the configuration of the item is parsed and
\* get_price called
CheckProduct ==
    /\ phase = "cycle"
    /\ next_product <= Len(products)
    /\ LET item == products[next_product]
           config == ParseConfig(item.config)
       IN  IF config.error # ""
           THEN /\ journal' = Append(journal, Note(config.error, item.name))
                /\ next_product' = after_skip(next_product, Len(products))
                /\ UNCHANGED <<pc, url, max_retries, attempt, headers, response, events,
                               sleeps, draws, result, caller, pure, phase>>
           ELSE /\ Call(config.url, default_max_retries)
                /\ phase' = "calling"
                /\ UNCHANGED <<journal, next_product>>
    /\ UNCHANGED <<price_history, loaded, now, products>>

\* the rest of the iteration once get_price has returned; the locals of
\* get_price are gone with its return
FinishProduct ==
    /\ phase = "calling"
    /\ pc = "done"
    /\ pc' = "idle"
    /\ url' = <<>>
    /\ max_retries' = 0
    /\ attempt' = 0
    /\ response' = NoResponse
    /\ events' = <<>>
    /\ sleeps' = <<>>
    /\ result' = None
    /\ phase' = "cycle"
    /\ current_price' = result
    /\ LET item == products[next_product]
           target == ParseConfig(item.config).target_price
           returned == [kind |-> "returned", product |-> item.name, price |-> result]
       IN  IF result = None
           THEN /\ journal' = journal \o <<returned, Note("no_price", item.name)>>
                /\ next_product' = after_skip(next_product, Len(products))
                /\ UNCHANGED <<price_history, now>>
           ELSE \E sent \in BOOLEAN, saved \in BOOLEAN :
                   LET history == update_price_history(price_history, item.name, result[1], now)
                       entry == [price |-> result[1], timestamp |-> now]
                   IN  /\ price_history' = history
                       /\ now' = now + 1
                       /\ journal' =
                             journal
                             \o <<returned, Appended(item.name, entry)>>
                             \o (IF target_hit(result[1], target)
                                 THEN <<send_alert(history, item.name, result[1], target, sent)>>
                                 ELSE <<Note("above_target", item.name)>>)
                             \o <<[kind |-> "save", product |-> item.name, saved |-> saved]>>
                             \o (IF Len(products) > 1 THEN <<Note("pause", item.name)>>
                                 ELSE <<>>)
                       /\ next_product' = next_product + 1
    /\ UNCHANGED <<headers, draws, current_cause, pure, loaded, products>>

\* the loop is over
EndCycle ==
    /\ phase = "cycle"
    /\ next_product > Len(products)
    /\ phase' = "finished"
    /\ journal' = Append(journal, Note("completed", ""))
    /\ UNCHANGED <<pc, url, max_retries, attempt, headers, response, events, sleeps, draws,
                   result, caller, pure, price_history, loaded, now, products, next_product>>

NextCycle ==
    \/ StartCycle
    \/ CheckProduct
    \/ GetPriceStep
    \/ FinishProduct
    \/ EndCycle

SpecCycle == InitCycle /\ [][NextCycle]_vars

(***************************************************************************)
(* Vocabulary of the properties of the check cycle.                        *)
(***************************************************************************)
\* the places of the journal that hold a record of the kind for product p
Records(p, kind) == {i \in DOMAIN journal : journal[i].kind = kind /\ journal[i].product = p}

\* the configured target of product p, in cents
TargetCents(p) ==
    IF \E i \in DOMAIN products : products[i].name = p /\ products[i].config = OtherConfig
    THEN 80000
    ELSE 2450

\* the entries of product p before this cycle
Earlier(p) == IF p \in DOMAIN loaded THEN loaded[p] ELSE <<>>

(***************************************************************************)
(* C14: for a well-formed product the alert is triggered exactly when      *)
(* get_price returned a price that is at most the target, the target       *)
(* itself included; every price returned is appended to the history of the *)
(* product, alert or not, and before the alert.                            *)
(***************************************************************************)
C14_AlertIffAtOrBelowTarget ==
    \A p \in ProductNames :
        /\ \A i \in Records(p, "returned") :
              journal[i].price # None =>
                  /\ journal[i + 1].kind = "history"
                  /\ journal[i + 1].product = p
                  /\ journal[i + 1].entry.price = journal[i].price[1]
                  /\ \E k \in DOMAIN price_history[p] :
                        price_history[p][k] = journal[i + 1].entry
                  /\ journal[i + 2].product = p
                  /\ journal[i + 2].kind =
                        IF Cents(journal[i].price[1]) <= TargetCents(p)
                        THEN "alert" ELSE "above_target"
        /\ \A i \in Records(p, "alert") :
              /\ i >= 3
              /\ journal[i - 2].kind = "returned"
              /\ journal[i - 2].product = p
              /\ journal[i - 2].price = Some(journal[i].current_price)
              /\ journal[i - 1].kind = "history"
              /\ Cents(journal[i].current_price) <= TargetCents(p)

\* an alert for a price that is the target itself
C14_Witness ==
    \E i \in Records("widget", "alert") :
        /\ journal[i].current_price = Dec(2450, 2)
        /\ journal[i].target_price = Dec(2450, 2)
        /\ journal[i - 1].kind = "history"

(***************************************************************************)
(* C18: a product whose configuration is malformed, whose target is not a  *)
(* number or for which get_price returned None gets no history entry, no   *)
(* alert and no save, and the cycle goes on: when it ends, every           *)
(* configured product has been dealt with, in order, get_price called for  *)
(* each well-formed one.                                                   *)
(***************************************************************************)
SkipKinds == {"invalid_config", "invalid_target", "no_price"}

\* what became of each product, in order
Outcomes ==
    SelectSeq(journal, LAMBDA r : r.kind \in {"invalid_config", "invalid_target", "returned"})

C18_SkippedProductLeavesNoTrace ==
    /\ \A p \in ProductNames :
          (\E kind \in SkipKinds : Records(p, kind) # {}) =>
              /\ Records(p, "history") = {}
              /\ Records(p, "alert") = {}
              /\ Records(p, "save") = {}
              /\ (p \in DOMAIN price_history) = (p \in DOMAIN loaded)
              /\ p \in DOMAIN loaded => price_history[p] = loaded[p]
    /\ (phase = "finished" /\ products # <<>>) =>
          /\ Len(Outcomes) = Len(products)
          /\ \A i \in DOMAIN products :
                /\ Outcomes[i].product = products[i].name
                /\ Outcomes[i].kind =
                      CASE products[i].config = MalformedConfig -> "invalid_config"
                        [] products[i].config = BadTargetConfig -> "invalid_target"
                        [] OTHER -> "returned"

\* a cycle that got no price for the first product and a price for the second
C18_Witness ==
    /\ phase = "finished"
    /\ Records("widget", "no_price") # {}
    /\ \E i \in Records("gadget", "returned") : journal[i].price # None
    /\ Records("gadget", "save") # {}

(***************************************************************************)
(* C19: the previous price of an alert is the price of the newest entry    *)
(* the product had before this check, not the price just appended; the     *)
(* alert reports savings only when there is such an entry and its price is *)
(* above the current price, and then the difference of the two.            *)
(***************************************************************************)
C19_SavingsAgainstPreviousCheck ==
    \A i \in DOMAIN journal :
        journal[i].kind = "alert" =>
            LET alert == journal[i]
                earlier == Earlier(alert.product)
                last == earlier[Len(earlier)]
            IN  /\ alert.previous_price =
                      IF earlier = <<>> THEN None ELSE Some(last.price)
                /\ (alert.savings # None) =
                      (earlier # <<>> /\ Cents(last.price) > Cents(alert.current_price))
                /\ alert.savings # None =>
                      Cents(alert.savings[1]) = Cents(last.price) - Cents(alert.current_price)

\* an alert at 19.99 after an entry at 30.00: 10.01 saved
C19_Witness ==
    \E i \in Records("widget", "alert") :
        /\ Len(Earlier("widget")) = 1
        /\ journal[i].current_price = Dec(1999, 2)
        /\ journal[i].previous_price = Some(Dec(3000, 2))
        /\ journal[i].savings = Some(Dec(1001, 2))
====
